---------------------------- MODULE Spec2Model ----------------------------
(***************************************************************************)
(* Text-to-Speech API (text_to_speech/views.py, serializers.py, urls.py).  *)
(*                                                                         *)
(* The state is the record table behind Text_to_speech.objects, the files  *)
(* under voice/, the calls made to the synthesis engine (gTTS), the create *)
(* requests in flight (one per worker) and the last response sent.         *)
(* Strings are sequences of code points.  A value that may be None (a key  *)
(* missing from request.data) is a record [isNone, v].                     *)
(***************************************************************************)
EXTENDS Integers, Sequences, FiniteSets, TLC

VARIABLES records, nextId, files, engineCalls, inflight, response, nreq,
          vText, vFileName, vError, vLang, vCall

vars == <<records, nextId, files, engineCalls, inflight, response, nreq,
          vText, vFileName, vError, vLang, vCall>>

sysVars == <<records, nextId, files, engineCalls, inflight, response, nreq>>

pureVars == <<vText, vFileName, vError, vLang, vCall>>

-----------------------------------------------------------------------------
(* Bounds of the model. *)

\* Requests the HTTP endpoints receive in one run.
MaxRequests == 2

\* Workers that handle create requests at the same time.
Workers == {1, 2}

-----------------------------------------------------------------------------
(* Program constants, views.py:21-24 and the character classes of line 200. *)

MIN_TEXT_LENGTH == 10

MIN_FILE_NAME_LENGTH == 5

MAX_TEXT_LENGTH == 700

MAX_FILE_NAME_LENGTH == 20

\* [\u0400-\u04ff]
CyrillicLo == 1024

CyrillicHi == 1279

\* [\u0500-\u052f]
CyrillicSupLo == 1280

CyrillicSupHi == 1327

-----------------------------------------------------------------------------
(* Values. *)

None == [isNone |-> TRUE, v |-> <<>>]

Str(s) == [isNone |-> FALSE, v |-> s]

\* Python's `not x` for x a str or None.
Falsy(x) == x.isNone \/ Len(x.v) = 0

Rep(c, n) == [i \in 1..n |-> c]

With(s, i, c) == [s EXCEPT ![i] = c]

\* created_at of a row that has no creation time (NULL).
NullTime == 0

-----------------------------------------------------------------------------
(* BaseTextToSpeechView.validate_request_data, views.py:133-170.  The       *)
(* result names the error raised; NoError is a return without a raise.      *)

NoError == "ok"

validate_request_data_MaxFirst(text, file_name) ==
    IF Falsy(text) THEN "text_empty"
    ELSE IF Len(text.v) < MIN_TEXT_LENGTH THEN "text_too_short"
    ELSE IF Len(text.v) > MAX_TEXT_LENGTH THEN "text_too_long"
    ELSE IF Falsy(file_name) THEN "file_name_empty"
    ELSE IF Len(file_name.v) < MIN_FILE_NAME_LENGTH THEN "file_name_too_short"
    ELSE IF Len(file_name.v) > MAX_FILE_NAME_LENGTH THEN "file_name_too_long"
    ELSE NoError

validate_request_data_NoMax(text, file_name) ==
    IF Falsy(text) THEN "text_empty"
    ELSE IF Len(text.v) < MIN_TEXT_LENGTH THEN "text_too_short"
    ELSE IF Falsy(file_name) THEN "file_name_empty"
    ELSE IF Len(file_name.v) < MIN_FILE_NAME_LENGTH THEN "file_name_too_short"
    ELSE NoError

validate_request_data(text, file_name) ==
    IF Falsy(text) THEN "text_empty"
    ELSE IF Len(text.v) < MIN_TEXT_LENGTH THEN "text_too_short"
    ELSE IF Falsy(file_name) THEN "file_name_empty"
    ELSE IF Len(file_name.v) < MIN_FILE_NAME_LENGTH THEN "file_name_too_short"
    ELSE IF Len(text.v) > MAX_TEXT_LENGTH THEN "text_too_long"
    ELSE IF Len(file_name.v) > MAX_FILE_NAME_LENGTH THEN "file_name_too_long"
    ELSE NoError

-----------------------------------------------------------------------------
(* The language choice of TextToSpeechView.user_text, views.py:200-201.     *)

\* One character against [\u0400-\u04ff]|[\u0500-\u052f].
InClass(c) ==
    \/ (CyrillicLo <= c /\ c <= CyrillicHi)
    \/ (CyrillicSupLo <= c /\ c <= CyrillicSupHi)

\* re.match instead of re.search: only the first character is looked at.
re_search_AtStart(text) ==
    IF Len(text) > 0 /\ InClass(text[1]) THEN 1 ELSE 0

\* re.search: the position of the leftmost match, 0 for no match (None).
re_search(text) ==
    LET hits == {i \in 1..Len(text) : InClass(text[i])}
    IN  IF hits = {} THEN 0
        ELSE CHOOSE i \in hits : \A j \in hits : i <= j

lang_of(text) == IF re_search(text) # 0 THEN "ru" ELSE "en"

\* gTTS(text, lang).write_to_fp: the engine is an opaque function of its
\* arguments; its bytes are named by them.
gTTS(text, lang) == [text |-> text, lang |-> lang]

\* views.py:200-202: the arguments the engine is constructed with.
engine_call(text) == [text |-> text, lang |-> lang_of(text)]

\* f"voice/{file_name}.mp3", views.py:207.
voice_path_of(file_name) ==
    <<118, 111, 105, 99, 101, 47>> \o file_name \o <<46, 109, 112, 51>>

\* f'attachment; filename="{file_name}.mp3"', views.py:339-341: the name
\* the attachment is given.
attachment_name(file_name) == file_name \o <<46, 109, 112, 51>>

-----------------------------------------------------------------------------
(* The record table and TextToSpeechSerializer.                             *)

\* The value a new row's voice column takes when the serializer gives none:
\* an unset path.
DefaultVoice == << >>

\* TextToSpeechSerializer, Meta.fields = ['text', 'file_name']: the keys of
\* request.data that reach the row; every other key (voice) is dropped.
validated_data(data) == [text |-> data.text, file_name |-> data.file_name]

\* ModelSerializer.create: objects.create(**validated_data); created_at is
\* stamped by the store.
new_row(id, vd, now) ==
    [id |-> id, text |-> vd.text, file_name |-> vd.file_name,
     voice |-> DefaultVoice, created_at |-> now]

\* serializer.data: the representation returned to the client.
serializer_data(row) == [text |-> row.text, file_name |-> row.file_name]

RowsById(id) == {r \in records : r.id = id}

RowsByFileName(fn) == {r \in records : r.file_name = fn}

WriteFile(fs, path, bytes) ==
    [p \in DOMAIN fs \cup {path} |-> IF p = path THEN bytes ELSE fs[p]]

\* The exception handler of the framework: the status of what a handler raised.
status_of(exc) ==
    CASE exc = "ValidationError" -> 400
      [] exc = "Http404" -> 404
      [] exc = "MethodNotAllowed" -> 405
      [] OTHER -> 500

-----------------------------------------------------------------------------
(* Requests and responses.                                                  *)

\* text values a client sends: absent, empty, one short of the minimum, the
\* minimum with no Cyrillic character, the minimum with U+052F as its last
\* character, and one over the maximum.
TextInputs ==
    { None,
      Str(<< >>),
      Str(Rep(97, MIN_TEXT_LENGTH - 1)),
      Str(Rep(97, MIN_TEXT_LENGTH)),
      Str(With(Rep(97, MIN_TEXT_LENGTH), MIN_TEXT_LENGTH, 1327)),
      Str(Rep(97, MAX_TEXT_LENGTH + 1)) }

\* file_name values a client sends: absent, empty, one short of the minimum,
\* "abcde", the maximum, and one over the maximum.
FileNameInputs ==
    { None,
      Str(<< >>),
      Str(Rep(102, MIN_FILE_NAME_LENGTH - 1)),
      Str(<<97, 98, 99, 100, 101>>),
      Str(Rep(102, MAX_FILE_NAME_LENGTH)),
      Str(Rep(102, MAX_FILE_NAME_LENGTH + 1)) }

\* <str:file_name> of the download URL: never empty.
UrlFileNames == {fn.v : fn \in {f \in FileNameInputs : ~Falsy(f)}}

\* <int:pk> of the detail URL.
IdInputs == 1..MaxRequests

NoBytes == [text |-> << >>, lang |-> "none"]

Idle == [pc |-> "idle", seq |-> 0, text |-> << >>, file_name |-> << >>,
         voice_bytes |-> NoBytes]

NoResponse ==
    [seq |-> 0, op |-> "none", status |-> 0, raised |-> "", text |-> None,
     file_name |-> None, id |-> 0, body |-> [error |-> ""]]

Reply(seq, op, status, raised, text, file_name, id, body) ==
    [seq |-> seq, op |-> op, status |-> status, raised |-> raised,
     text |-> text, file_name |-> file_name, id |-> id, body |-> body]

\* An exception leaving the handler: the framework answers with its status.
Raise(seq, op, exc, detail, text, file_name, id) ==
    Reply(seq, op, status_of(exc), exc, text, file_name, id, [error |-> detail])

Init ==
    /\ records = {}
    /\ nextId = 1
    /\ files = [p \in {} |-> NoBytes]
    /\ engineCalls = << >>
    /\ inflight = [w \in Workers |-> Idle]
    /\ response = NoResponse
    /\ nreq = 0
    /\ vText = None
    /\ vFileName = None
    /\ vError = ""
    /\ vLang = ""
    /\ vCall = NoBytes

-----------------------------------------------------------------------------
(* TextToSpeechView.post and user_text, views.py:188-235.  A create request *)
(* blocks in the engine call and in the file write, where the requests of   *)
(* other workers run; each step below is the code up to the next such call. *)

\* views.py:225-231: a failed validation raises serializers.ValidationError.
\* The except clause names django's ValidationError, another class, so the
\* exception leaves the handler and the framework answers it with 400.
Post(w, text, file_name) ==
    /\ nreq < MaxRequests
    /\ inflight[w].pc = "idle"
    /\ nreq' = nreq + 1
    /\ LET err == validate_request_data(text, file_name)
       IN  IF err # NoError
           THEN /\ response' = Raise(nreq + 1, "POST", "ValidationError", err,
                                     text, file_name, 0)
                /\ UNCHANGED inflight
           ELSE /\ inflight' = [inflight EXCEPT ![w] =
                       [pc |-> "validated", seq |-> nreq + 1, text |-> text.v,
                        file_name |-> file_name.v, voice_bytes |-> NoBytes]]
                /\ UNCHANGED response
    /\ UNCHANGED <<records, nextId, files, engineCalls, pureVars>>

\* views.py:200-205: the language is chosen, the engine is called and fills
\* voice_bytes, or fails (gTTSError), which ends the request with a 500.
Synthesize(w) ==
    /\ inflight[w].pc = "validated"
    /\ LET r == inflight[w]
           call == engine_call(r.text)
       IN  /\ engineCalls' = Append(engineCalls, call)
           /\ \E ok \in BOOLEAN :
                IF ok
                THEN /\ inflight' = [inflight EXCEPT ![w].pc = "synthesized",
                                        ![w].voice_bytes = gTTS(call.text, call.lang)]
                     /\ UNCHANGED response
                ELSE /\ inflight' = [inflight EXCEPT ![w] = Idle]
                     /\ response' = Raise(r.seq, "POST", "gTTSError", "synthesis",
                                          Str(r.text), Str(r.file_name), 0)
    /\ UNCHANGED <<records, nextId, files, nreq, pureVars>>

\* A failed open is swallowed and the request goes on to persistence.
Store_FailureIgnored(w) ==
    /\ inflight[w].pc = "synthesized"
    /\ LET r == inflight[w]
           voice_path == voice_path_of(r.file_name)
       IN  \E outcome \in {"written", "open_failed", "write_failed"} :
             /\ files' = CASE outcome = "written" ->
                                  WriteFile(files, voice_path, r.voice_bytes)
                           [] outcome = "write_failed" ->
                                  WriteFile(files, voice_path, NoBytes)
                           [] OTHER -> files
             /\ inflight' = [inflight EXCEPT ![w].pc = "stored"]
             /\ UNCHANGED response
    /\ UNCHANGED <<records, nextId, engineCalls, nreq, pureVars>>

\* views.py:207-209: open(voice_path, "wb") and write.  open may fail (the
\* file is as before); the write may fail after open has truncated the file.
Store(w) ==
    /\ inflight[w].pc = "synthesized"
    /\ LET r == inflight[w]
           voice_path == voice_path_of(r.file_name)
       IN  \E outcome \in {"written", "open_failed", "write_failed"} :
             IF outcome = "written"
             THEN /\ files' = WriteFile(files, voice_path, r.voice_bytes)
                  /\ inflight' = [inflight EXCEPT ![w].pc = "stored"]
                  /\ UNCHANGED response
             ELSE /\ files' = IF outcome = "write_failed"
                              THEN WriteFile(files, voice_path, NoBytes)
                              ELSE files
                  /\ inflight' = [inflight EXCEPT ![w] = Idle]
                  /\ response' = Raise(r.seq, "POST", "OSError", outcome,
                                       Str(r.text), Str(r.file_name), 0)
    /\ UNCHANGED <<records, nextId, engineCalls, nreq, pureVars>>

\* views.py:211, 233-235: request.data["voice"] = voice_path, then the
\* generic create: the serializer's validated data become a row, answered
\* 201 with serializer.data.  The step may fail (request.data immutable, the
\* store unavailable), which ends the request with a 500 and no row.
Persist(w) ==
    /\ inflight[w].pc = "stored"
    /\ LET r == inflight[w]
           data == [text |-> r.text, file_name |-> r.file_name,
                    voice |-> voice_path_of(r.file_name)]
           row == new_row(nextId, validated_data(data), nreq)
       IN  \E ok \in BOOLEAN :
             IF ok
             THEN /\ records' = records \cup {row}
                  /\ nextId' = nextId + 1
                  /\ response' = Reply(r.seq, "POST", 201, "", Str(r.text),
                                       Str(r.file_name), row.id,
                                       serializer_data(row))
             ELSE /\ UNCHANGED <<records, nextId>>
                  /\ response' = Raise(r.seq, "POST", "PersistError", "persist",
                                       Str(r.text), Str(r.file_name), 0)
    /\ inflight' = [inflight EXCEPT ![w] = Idle]
    /\ UNCHANGED <<files, engineCalls, nreq, pureVars>>

-----------------------------------------------------------------------------
(* TextToSpeechDetailView, views.py:238-300: PUT is overridden; PATCH and   *)
(* DELETE are the generic ones of RetrieveUpdateDestroyAPIView.             *)

\* views.py:293: the check that stops an update.
update_gate_Inverted(row) == row.created_at = NullTime

update_gate(row) == row.created_at # NullTime

\* views.py:294, raise serializers.MethodNotAllowed("PUT"): the name is looked
\* up in rest_framework.serializers when the line runs.  Where that module
\* defines no such name the lookup raises AttributeError instead.
GateRaises == {"MethodNotAllowed", "AttributeError"}

\* The generic update: the serializer's fields that the data give replace the
\* row's (text, file_name); the other columns stay.
updated_row(row, text, file_name) ==
    [row EXCEPT !.text = IF text.isNone THEN @ ELSE text.v,
                !.file_name = IF file_name.isNone THEN @ ELSE file_name.v]

\* views.py:273-300.  After the gate: super().put saves text and file_name,
\* then update_voice runs user_text (engine call, file write) and assigns the
\* path to one get_object() result and saves another, so the row's voice
\* column stays as it was.
Put(id, text, file_name) ==
    /\ nreq < MaxRequests
    /\ nreq' = nreq + 1
    /\ LET err == validate_request_data(text, file_name)
           rows == RowsById(id)
           row == CHOOSE r \in rows : TRUE
       IN  IF err # NoError
           THEN /\ response' = Raise(nreq + 1, "PUT", "ValidationError", err,
                                     text, file_name, id)
                /\ UNCHANGED <<records, files, engineCalls>>
           ELSE IF rows = {}
           THEN /\ response' = Raise(nreq + 1, "PUT", "Http404", "not found",
                                     text, file_name, id)
                /\ UNCHANGED <<records, files, engineCalls>>
           ELSE IF update_gate(row)
           THEN /\ \E exc \in GateRaises :
                     response' = Raise(nreq + 1, "PUT", exc, "PUT",
                                       text, file_name, id)
                /\ UNCHANGED <<records, files, engineCalls>>
           ELSE LET new == updated_row(row, text, file_name)
                    call == engine_call(text.v)
                IN  /\ records' = (records \ {row}) \cup {new}
                    /\ engineCalls' = Append(engineCalls, call)
                    /\ files' = WriteFile(files, voice_path_of(file_name.v),
                                          gTTS(call.text, call.lang))
                    /\ response' = Reply(nreq + 1, "PUT", 200, "", text,
                                         file_name, id, serializer_data(new))
    /\ UNCHANGED <<nextId, inflight, pureVars>>

\* UpdateModelMixin.partial_update, reached by PATCH: no validate_request_data,
\* no gate, no synthesis.  The data give text, file_name, both or neither.
Patch(id, text, file_name) ==
    /\ nreq < MaxRequests
    /\ nreq' = nreq + 1
    /\ LET rows == RowsById(id)
           row == CHOOSE r \in rows : TRUE
           new == updated_row(row, text, file_name)
       IN  IF rows = {}
           THEN /\ response' = Raise(nreq + 1, "PATCH", "Http404", "not found",
                                     text, file_name, id)
                /\ UNCHANGED records
           ELSE /\ records' = (records \ {row}) \cup {new}
                /\ response' = Reply(nreq + 1, "PATCH", 200, "", text,
                                     file_name, id, serializer_data(new))
    /\ UNCHANGED <<nextId, files, engineCalls, inflight, pureVars>>

\* DestroyModelMixin.destroy, reached by DELETE: the row goes, its file stays.
Delete(id) ==
    /\ nreq < MaxRequests
    /\ nreq' = nreq + 1
    /\ LET rows == RowsById(id)
       IN  IF rows = {}
           THEN /\ response' = Raise(nreq + 1, "DELETE", "Http404", "not found",
                                     None, None, id)
                /\ UNCHANGED records
           ELSE /\ records' = records \ rows
                /\ response' = Reply(nreq + 1, "DELETE", 204, "", None, None,
                                     id, [error |-> ""])
    /\ UNCHANGED <<nextId, files, engineCalls, inflight, pureVars>>

-----------------------------------------------------------------------------
(* DownloadVoiceView.retrieve, views.py:323-342.                            *)

\* get_object_or_404(queryset, file_name=file_name) is queryset.get: no row
\* raises Http404, several rows raise MultipleObjectsReturned.  Then
\* open(voice_path, "rb") raises FileNotFoundError for a path with no file.
Download(file_name) ==
    /\ nreq < MaxRequests
    /\ nreq' = nreq + 1
    /\ LET rows == RowsByFileName(file_name)
           row == CHOOSE r \in rows : TRUE
           voice_path == row.voice
       IN  response' =
             IF rows = {}
             THEN Raise(nreq + 1, "DOWNLOAD", "Http404", "not found", None,
                        Str(file_name), 0)
             ELSE IF Cardinality(rows) > 1
             THEN Raise(nreq + 1, "DOWNLOAD", "MultipleObjectsReturned",
                        "get", None, Str(file_name), 0)
             ELSE IF voice_path \notin DOMAIN files
             THEN Raise(nreq + 1, "DOWNLOAD", "FileNotFoundError", "open",
                        None, Str(file_name), row.id)
             ELSE Reply(nreq + 1, "DOWNLOAD", 200, "", None, Str(file_name),
                        row.id,
                        [content |-> files[voice_path],
                         filename |-> attachment_name(row.file_name)])
    /\ UNCHANGED <<records, nextId, files, engineCalls, inflight, pureVars>>

-----------------------------------------------------------------------------

\* What a PUT body gives: payloads that pass validate_request_data and
\* payloads that fail each side of it.
PutTexts == {None, Str(Rep(97, MIN_TEXT_LENGTH - 1)), Str(Rep(97, MIN_TEXT_LENGTH))}

PutFileNames == {f \in FileNameInputs : ~f.isNone /\ Len(f.v) \in
                {MIN_FILE_NAME_LENGTH, MAX_FILE_NAME_LENGTH + 1}}

\* What a PATCH body gives: a key is absent or holds a non-blank string.
PatchTexts == {None, Str(Rep(97, MIN_TEXT_LENGTH - 1))}

PatchFileNames == {f \in FileNameInputs : f.isNone \/ Len(f.v) = MAX_FILE_NAME_LENGTH}

Next ==
    \/ \E w \in Workers, text \in TextInputs, file_name \in FileNameInputs :
          Post(w, text, file_name)
    \/ \E w \in Workers : Synthesize(w)
    \/ \E w \in Workers : Store(w)
    \/ \E w \in Workers : Persist(w)
    \/ \E id \in IdInputs, text \in PutTexts, file_name \in PutFileNames :
          Put(id, text, file_name)
    \/ \E id \in IdInputs, text \in PatchTexts, file_name \in PatchFileNames :
          Patch(id, text, file_name)
    \/ \E id \in IdInputs : Delete(id)
    \/ \E file_name \in UrlFileNames : Download(file_name)

Spec == Init /\ [][Next]_vars

-----------------------------------------------------------------------------
(* validate_request_data and the language choice on their own, over texts   *)
(* and file names of every length class and with the characters at and      *)
(* around the ends of both character classes, at the start, in the middle   *)
(* and at the end of the text.                                              *)

PureLens == {1, MIN_TEXT_LENGTH - 1, MIN_TEXT_LENGTH, MIN_TEXT_LENGTH + 1,
             MAX_TEXT_LENGTH, MAX_TEXT_LENGTH + 1}

PureChars == {97, CyrillicLo - 1, CyrillicLo, CyrillicHi, CyrillicSupLo,
              CyrillicSupHi, CyrillicSupHi + 1}

PureTexts ==
    {None, Str(<< >>)} \cup
    UNION {{Str(With(Rep(97, n), i, c)) :
                i \in {1, 2, 5, 350, 700, 701} \cap (1..n), c \in PureChars} :
           n \in PureLens}

PureFileNameLens == {1, MIN_FILE_NAME_LENGTH - 1, MIN_FILE_NAME_LENGTH,
                     MAX_FILE_NAME_LENGTH, MAX_FILE_NAME_LENGTH + 1}

PureFileNames ==
    {None, Str(<< >>)} \cup {Str(Rep(102, n)) : n \in PureFileNameLens}

InitPure ==
    /\ records = {}
    /\ nextId = 1
    /\ files = [p \in {} |-> NoBytes]
    /\ engineCalls = << >>
    /\ inflight = [w \in Workers |-> Idle]
    /\ response = NoResponse
    /\ nreq = 0
    /\ vText \in PureTexts
    /\ vFileName \in PureFileNames
    /\ vError = ""
    /\ vLang = ""
    /\ vCall = NoBytes

\* self.validate_request_data(text, file_name), views.py:229.
Validate ==
    /\ vError = ""
    /\ vError' = validate_request_data(vText, vFileName)
    /\ UNCHANGED <<sysVars, vText, vFileName, vLang, vCall>>

\* views.py:200-201 on a text of any length.
Detect ==
    /\ vLang = ""
    /\ ~vText.isNone
    /\ vLang' = lang_of(vText.v)
    /\ UNCHANGED <<sysVars, vText, vFileName, vError, vCall>>

\* views.py:233, 200-202: user_text is reached only when validation raised
\* nothing; the engine is then constructed with the text and the language.
Call ==
    /\ vError = NoError
    /\ vCall = NoBytes
    /\ vCall' = engine_call(vText.v)
    /\ UNCHANGED <<sysVars, vText, vFileName, vError, vLang>>

NextPure == Validate \/ Detect \/ Call

SpecPure == InitPure /\ [][NextPure]_vars

-----------------------------------------------------------------------------
(* The claims.                                                              *)

\* The step completes a request of kind op: its response is sent.
Answers(op) == response'.seq # response.seq /\ response'.op = op

\* A payload the create and update endpoints must refuse: text absent, empty,
\* shorter than 10 or longer than 700, or file_name absent, empty, shorter
\* than 5 or longer than 20.
BadText(t) == t.isNone \/ Len(t.v) = 0 \/ Len(t.v) < 10 \/ Len(t.v) > 700

BadFileName(f) == f.isNone \/ Len(f.v) = 0 \/ Len(f.v) < 5 \/ Len(f.v) > 20

BadPayload(t, f) == BadText(t) \/ BadFileName(f)

\* The text holds a character in U+0400-U+04FF or U+0500-U+052F.
HasCyrillic(text) ==
    \E i \in 1..Len(text) :
        (1024 <= text[i] /\ text[i] <= 1279) \/ (1280 <= text[i] /\ text[i] <= 1327)

\* C1: a create request with a bad text or a bad file_name is answered 400
\* and changes nothing: no engine call, no file, no row; and no such request
\* is ever past validation.
C1_InvalidCreateRejected ==
    [][ /\ \A w \in Workers :
              inflight'[w].pc # "idle"
                 => ~BadPayload(Str(inflight'[w].text), Str(inflight'[w].file_name))
        /\ (Answers("POST") /\ BadPayload(response'.text, response'.file_name))
              => /\ response'.status = 400
                 /\ UNCHANGED <<records, files, engineCalls>>
      ]_vars

\* C1's case: with a row stored, a create whose text is over 700 characters
\* (and whose file_name is fine) has been answered 400.
C1_Witness ==
    /\ response.op = "POST"
    /\ response.status = 400
    /\ ~response.text.isNone
    /\ Len(response.text.v) > 700
    /\ ~BadFileName(response.file_name)
    /\ records # {}

\* C2: every row with a creation time has a voice path that names a file in
\* the voice storage.
C2_VoicePathExists ==
    \A r \in records : r.created_at # NullTime => r.voice \in DOMAIN files

\* C3: a download of F right after the create of (T, F) answered 201, F being
\* the file_name of that row only: the 201 body gave voice/F.mp3, and the
\* download answers 200 with the audio synthesized from T, named F.mp3.
C3_CreateThenDownload ==
    [][ ( /\ response.op = "POST"
          /\ response.status = 201
          /\ Answers("DOWNLOAD")
          /\ response'.file_name = response.file_name
          /\ Cardinality(RowsByFileName(response.file_name.v)) = 1 )
        => /\ "voice" \in DOMAIN response.body
           /\ response.body.voice = voice_path_of(response.file_name.v)
           /\ response'.status = 200
           /\ response'.body.content.text = response.text.v
           /\ response'.body.filename = response.file_name.v \o <<46, 109, 112, 51>>
      ]_vars

\* The step answers a PUT on a row that has a creation time.
PutOnCreated ==
    /\ Answers("PUT")
    /\ \E r \in records : r.id = response'.id /\ r.created_at # NullTime

C5_RowsImmutable ==
    [][ \A r \in records : r.created_at # NullTime =>
          \A r2 \in records' : r2.id = r.id =>
              /\ r2.text = r.text
              /\ r2.file_name = r.file_name
              /\ r2.voice = r.voice
      ]_vars

\* C6: a download is answered 404 when no row has the file_name, and when the
\* one row that has it names a path with no file.
C6_DownloadNotFound ==
    [][ ( /\ Answers("DOWNLOAD")
          /\ LET rows == RowsByFileName(response'.file_name.v)
             IN  \/ rows = {}
                 \/ /\ Cardinality(rows) = 1
                    /\ \A r \in rows : r.voice \notin DOMAIN files )
        => response'.status = 404
      ]_vars

\* The six checks of C7, in the order it gives, each with its error.
C7_Checks(text, file_name) ==
    << <<text.isNone \/ Len(text.v) = 0, "text_empty">>,
       <<Len(text.v) < 10, "text_too_short">>,
       <<file_name.isNone \/ Len(file_name.v) = 0, "file_name_empty">>,
       <<Len(file_name.v) < 5, "file_name_too_short">>,
       <<Len(text.v) > 700, "text_too_long">>,
       <<Len(file_name.v) > 20, "file_name_too_long">> >>

\* C7: the error validate_request_data raises is that of the first check, in
\* the order above, that fails; it raises nothing exactly when
\* 10 <= len(text) <= 700 and 5 <= len(file_name) <= 20.
C7_FirstFailingCheck ==
    vError # "" =>
        LET checks == C7_Checks(vText, vFileName)
            failing == {i \in 1..6 : checks[i][1]}
            within == /\ ~vText.isNone /\ ~vFileName.isNone
                      /\ 10 <= Len(vText.v) /\ Len(vText.v) <= 700
                      /\ 5 <= Len(vFileName.v) /\ Len(vFileName.v) <= 20
        IN  /\ (vError = NoError) <=> within
            /\ failing # {} =>
                 \E i \in failing : /\ \A j \in failing : i <= j
                                    /\ vError = checks[i][2]

\* C7's case: a text over 700 characters with a file_name under 5 was
\* reported as file name too short.
C7_Witness ==
    /\ ~vText.isNone /\ Len(vText.v) > 700
    /\ ~vFileName.isNone /\ Len(vFileName.v) \in 1..4
    /\ vError = "file_name_too_short"

\* C8: the language chosen is 'ru' exactly for the texts that hold a
\* Cyrillic-class character, 'en' for the others, and that is the language
\* the engine is constructed with.
C8_LanguageChoice ==
    /\ vLang # "" => vLang = (IF HasCyrillic(vText.v) THEN "ru" ELSE "en")
    /\ vCall # NoBytes =>
          /\ vCall.text = vText.v
          /\ vCall.lang = (IF HasCyrillic(vText.v) THEN "ru" ELSE "en")

\* C8's case: a 700-character text whose only Cyrillic-class character is
\* U+052F in the middle went to the engine as 'ru'.
C8_Witness ==
    /\ ~vText.isNone /\ Len(vText.v) = 700
    /\ vText.v[350] = 1327
    /\ vText.v[1] = 97
    /\ vLang = "ru"
    /\ vCall # NoBytes /\ vCall.lang = "ru"

\* The order of a create request: Received (idle), Validated, Synthesized,
\* Stored, and back to idle when it is answered.
C9_Order ==
    { <<"idle", "validated">>, <<"validated", "synthesized">>,
      <<"synthesized", "stored">>, <<"validated", "idle">>,
      <<"synthesized", "idle">>, <<"stored", "idle">> }

\* C9: a create request moves only along Received, Validated, Synthesized,
\* Stored, Persisted; a row is added only by a request that is Stored, whose
\* engine call was made and whose file is on disk; a request that fails in
\* synthesis or in the file write adds no row; one that fails in persistence
\* adds no row and leaves its file.
C9_CreateOrder ==
    [][ /\ \A w \in Workers :
              inflight'[w].pc # inflight[w].pc
                 => <<inflight[w].pc, inflight'[w].pc>> \in C9_Order
        /\ \A row \in records' :
              row.id \notin {r.id : r \in records}
                 => \E w \in Workers :
                       /\ inflight[w].pc = "stored"
                       /\ inflight'[w].pc = "idle"
                       /\ row.text = inflight[w].text
                       /\ row.file_name = inflight[w].file_name
                       /\ row.created_at # NullTime
                       /\ voice_path_of(row.file_name) \in DOMAIN files
                       /\ \E i \in 1..Len(engineCalls) :
                             engineCalls[i].text = row.text
                       /\ response'.seq = inflight[w].seq
                       /\ response'.status = 201
        /\ \A w \in Workers :
              ( /\ inflight[w].pc \in {"validated", "synthesized"}
                /\ inflight'[w].pc = "idle" )
                 => /\ records' = records
                    /\ response'.seq = inflight[w].seq
                    /\ response'.status = 500
        /\ \A w \in Workers :
              ( /\ inflight[w].pc = "stored"
                /\ inflight'[w].pc = "idle"
                /\ response'.status # 201 )
                 => /\ records' = records
                    /\ voice_path_of(inflight[w].file_name) \in DOMAIN files'
      ]_vars

\* C9's case: persistence failed after the file write, and the file is on
\* disk with no row of its file_name or its path.
C9_Witness ==
    /\ response.op = "POST"
    /\ response.raised = "PersistError"
    /\ voice_path_of(response.file_name.v) \in DOMAIN files
    /\ files[voice_path_of(response.file_name.v)].text = response.text.v
    /\ \A r \in records :
          /\ r.file_name # response.file_name.v
          /\ r.voice # voice_path_of(response.file_name.v)

\* C10: when the second of two creates with one file_name and two texts is
\* answered 201 and no create is in flight, the rows of both name the path
\* voice/<file_name>.mp3 and the file holds the audio of one of the two texts.
C10_SameFileNameCreates ==
    [][ \A r1 \in records :
          ( /\ Answers("POST")
            /\ response'.status = 201
            /\ r1.file_name = response'.file_name.v
            /\ r1.text # response'.text.v
            /\ \A w \in Workers : inflight'[w].pc = "idle" )
          => \E r2 \in records' :
                /\ r2.id = response'.id
                /\ r2.id # r1.id
                /\ r1 \in records'
                /\ r1.voice = voice_path_of(r1.file_name)
                /\ r2.voice = voice_path_of(r1.file_name)
                /\ r2.voice \in DOMAIN files'
                /\ files'[r2.voice].text \in {r1.text, r2.text}
      ]_vars

=============================================================================
